---- MODULE Spec2Model ----
(***************************************************************************)
(* A model of diskface (src/diskface.py): the exclusion matcher, the scan  *)
(* engine analyze_disk_usage, the selection parser parse_selection, the    *)
(* interactive selection loop of cmd_scan and the removal executor         *)
(* safe_remove_items; of the simple analyzer (src/diskface/diskface.py),   *)
(* of DiskFace3 (src/diskface/__diskface.py) and of prune (src/prune.py).  *)
(*                                                                         *)
(* Strings are sequences of one-character strings, so that splitting,      *)
(* joining, lowercasing, integer parsing and glob matching are computed    *)
(* character by character as the Python code computes them.                *)
(***************************************************************************)
EXTENDS Integers, Sequences, FiniteSets, TLC

VARIABLES
    fs,         \* the filesystem: path -> [kind, size]
    cfg,        \* config.json as loaded: exclusions and settings
    pc,         \* position of the program
    todo,       \* os.walk: directories still to be yielded (a stack)
    visited,    \* directories os.walk has yielded, in order
    sized,      \* files os.path.getsize was called on during the scan
    results,    \* analyze_disk_usage: the list "results", in discovery order
    ranked,     \* analyze_disk_usage: the returned, sorted list
    selected,   \* interactive_selection: selected_items of the current loop turn
    answer,     \* the user's last reply to the removal confirmation
    items,      \* safe_remove_items: its argument selected_items
    idx,        \* safe_remove_items: index of the item the loop is at
    removed,    \* safe_remove_items: the dict "removed", in insertion order
    log,        \* what the removal loop did with each item it finished, in order
    ext,        \* number of external filesystem changes so far
    selection,  \* parse_selection: the input string
    max_items,  \* parse_selection: the argument max_items
    parsed,     \* parse_selection: the returned list
    arg_path,   \* path_matches_pattern: the argument path
    arg_pattern,\* path_matches_pattern: the argument pattern
    matches,    \* path_matches_pattern: the returned value
    calls,      \* number of calls of safe_remove_items that have returned
    prev_log    \* log of the previous call of safe_remove_items

vars == <<fs, cfg, pc, todo, visited, sized, results, ranked, selected, answer,
          items, idx, removed, log, ext, selection, max_items, parsed,
          arg_path, arg_pattern, matches, calls, prev_log>>

(***************************************************************************)
(* Bounds of the model.                                                    *)
(***************************************************************************)
\* file sizes are 1..MaxSize units of MiB; the threshold min_size_mb is 0..MaxSize
MaxSize == 2
\* external filesystem changes (deletions, size changes) per run
MaxExt == 1
\* length of the strings handed to parse_selection
MaxLen == 3
\* parse_selection: max_items ranges over 0..MaxIndex
MaxIndex == 3
\* safe_remove_items called on its own: the number of items handed to it
MaxItems == 2
\* path_matches_pattern called on its own: segments of the path
MaxPathSegs == 3
\* path_matches_pattern called on its own: segments of the pattern
MaxPatSegs == 2
\* the simple analyzer's -D/--depth ranges over 0..MaxDepth
MaxDepth == 1
\* the setting entries_to_show ranges over 1..MaxShow
MaxShow == 1

\* bytes per MB in min_bytes = min_size_mb * 1024 * 1024
MiB == 1048576

(***************************************************************************)
(* Strings.                                                                *)
(***************************************************************************)
UpperLetters == <<"A","B","C","D","E","F","G","H","I","J","K","L","M",
                  "N","O","P","Q","R","S","T","U","V","W","X","Y","Z">>
LowerLetters == <<"a","b","c","d","e","f","g","h","i","j","k","l","m",
                  "n","o","p","q","r","s","t","u","v","w","x","y","z">>

\* str.lower(), one character
LowerChar(c) ==
    IF \E i \in DOMAIN UpperLetters : UpperLetters[i] = c
    THEN LowerLetters[CHOOSE i \in DOMAIN UpperLetters : UpperLetters[i] = c]
    ELSE c

\* str.lower()
KeepCase(s) == s

Lower(s) == [i \in DOMAIN s |-> LowerChar(s[i])]

\* str.split(sep) for a one-character separator: empty pieces are kept
RECURSIVE SplitOn(_, _, _)
SplitOn(s, sep, cur) ==
    IF s = <<>> THEN <<cur>>
    ELSE IF Head(s) = sep THEN <<cur>> \o SplitOn(Tail(s), sep, <<>>)
    ELSE SplitOn(Tail(s), sep, Append(cur, Head(s)))

Split(s, sep) == SplitOn(s, sep, <<>>)

\* sep.join(pieces)
RECURSIVE JoinWith(_, _)
JoinWith(pieces, sep) ==
    IF pieces = <<>> THEN <<>>
    ELSE IF Len(pieces) = 1 THEN pieces[1]
    ELSE pieces[1] \o <<sep>> \o JoinWith(Tail(pieces), sep)

\* str.split(): split on whitespace, empty pieces dropped
SplitWhitespace(s) == SelectSeq(Split(s, " "), LAMBDA t : t # <<>>)

\* str.replace(old, new) for one-character strings
Replace(s, old, new) == [i \in DOMAIN s |-> IF s[i] = old THEN new ELSE s[i]]

\* str.startswith('.')
StartsWithDot(name) == name # <<>> /\ name[1] = "."

(***************************************************************************)
(* fnmatch.fnmatch on POSIX: *, ? and [seq] / [!seq] (a character class    *)
(* is a set of characters; a [ without a closing ] is a literal).          *)
(***************************************************************************)
\* the index of the ] closing the class opened at pat[i] = "[", 0 if none
ClassEnd(pat, i) ==
    LET n  == Len(pat)
        j0 == i + 1
        j1 == IF j0 <= n /\ pat[j0] = "!" THEN j0 + 1 ELSE j0
        j2 == IF j1 <= n /\ pat[j1] = "]" THEN j1 + 1 ELSE j1
        cs == {j \in j2..n : pat[j] = "]"}
    IN  IF cs = {} THEN 0 ELSE CHOOSE j \in cs : \A k \in cs : j <= k

ClassMatches(c, pat, j) ==
    LET neg   == pat[2] = "!"
        first == IF neg THEN 3 ELSE 2
        inSet == \E k \in first..(j - 1) : pat[k] = c
    IN  IF neg THEN ~inSet ELSE inSet

RECURSIVE GlobMatch(_, _)
GlobMatch(s, pat) ==
    IF pat = <<>> THEN s = <<>>
    ELSE IF Head(pat) = "*"
         THEN GlobMatch(s, Tail(pat)) \/ (s # <<>> /\ GlobMatch(Tail(s), pat))
    ELSE IF s = <<>> THEN FALSE
    ELSE IF Head(pat) = "?" THEN GlobMatch(Tail(s), Tail(pat))
    ELSE IF Head(pat) = "[" /\ ClassEnd(pat, 1) # 0
         THEN /\ ClassMatches(Head(s), pat, ClassEnd(pat, 1))
              /\ GlobMatch(Tail(s), SubSeq(pat, ClassEnd(pat, 1) + 1, Len(pat)))
    ELSE Head(s) = Head(pat) /\ GlobMatch(Tail(s), Tail(pat))

fnmatch(name, pat) == GlobMatch(name, pat)

(***************************************************************************)
(* pathlib.PurePath on POSIX.                                              *)
(***************************************************************************)
\* PurePath(p).is_absolute()
IsAbsolute(p) == p # <<>> /\ p[1] = "/"

\* str(PurePath(p)): repeated and trailing slashes and "." segments dropped; exactly
\* two leading slashes are kept (POSIX)
PurePathStr(p) ==
    LET segs == SelectSeq(Split(p, "/"), LAMBDA t : t # <<>> /\ t # <<".">>)
        body == JoinWith(segs, "/")
        two  == Len(p) >= 2 /\ p[1] = "/" /\ p[2] = "/" /\ (Len(p) = 2 \/ p[3] # "/")
    IN  IF IsAbsolute(p) THEN (IF two THEN <<"/", "/">> ELSE <<"/">>) \o body
        ELSE IF body = <<>> THEN <<".">> ELSE body

\* Path(p).parts for an absolute path: the root and every segment
PathParts(p) == <<<<"/">>>> \o SelectSeq(Split(p, "/"), LAMBDA t : t # <<>>)

\* os.path.join(dirpath, name)
PathJoin(dirpath, name) ==
    IF dirpath # <<>> /\ dirpath[Len(dirpath)] = "/" THEN dirpath \o name
    ELSE dirpath \o <<"/">> \o name

(***************************************************************************)
(* The exclusion matcher.                                                  *)
(***************************************************************************)
\* lines 122-139 without the "**" branch of lines 131-132
path_matches_pattern_without_double_star(path, pattern) ==
    LET pattern_pt == PurePathStr(pattern)
        path_pt    == PurePathStr(path)
        parts      == Split(pattern, "/")
    IN  IF IsAbsolute(pattern)
        THEN fnmatch(Lower(path_pt), Lower(pattern_pt))
        ELSE LET path_parts == Split(path_pt, "/")
                 plen       == Len(parts)
             IN  \E i \in 0..(Len(path_parts) - plen) :
                     fnmatch(Lower(JoinWith(SubSeq(path_parts, i + 1, i + plen), "/")),
                             Lower(pattern))

path_matches_pattern(path, pattern) ==
    LET pattern_pt == PurePathStr(pattern)
        path_pt    == PurePathStr(path)
        parts      == Split(pattern, "/")
    IN  IF IsAbsolute(pattern)
        THEN fnmatch(Lower(path_pt), Lower(pattern_pt))
        ELSE IF \E i \in DOMAIN parts : parts[i] = <<"*", "*">>
        THEN fnmatch(Lower(path_pt), Lower(<<"*">> \o parts[Len(parts)]))
        ELSE LET path_parts == Split(path_pt, "/")
                 plen       == Len(parts)
             IN  \E i \in 0..(Len(path_parts) - plen) :
                     fnmatch(Lower(JoinWith(SubSeq(path_parts, i + 1, i + plen), "/")),
                             Lower(pattern))

should_exclude(path, exclusions) ==
    \E excl \in exclusions : path_matches_pattern(path, excl)

(***************************************************************************)
(* parse_selection.                                                        *)
(***************************************************************************)
Digits == <<"0","1","2","3","4","5","6","7","8","9">>

IsDigit(c) == \E i \in DOMAIN Digits : Digits[i] = c

DigitVal(c) == (CHOOSE i \in DOMAIN Digits : Digits[i] = c) - 1

RECURSIVE DecimalVal(_)
DecimalVal(ds) ==
    IF ds = <<>> THEN 0
    ELSE DecimalVal(SubSeq(ds, 1, Len(ds) - 1)) * 10 + DigitVal(ds[Len(ds)])

\* int(tok): an optional sign and at least one decimal digit, else ValueError
IntParse(tok) ==
    LET signed == tok # <<>> /\ tok[1] \in {"+", "-"}
        ds     == IF signed THEN Tail(tok) ELSE tok
        ok     == ds # <<>> /\ \A i \in DOMAIN ds : IsDigit(ds[i])
    IN  IF ~ok THEN [ok |-> FALSE, val |-> 0]
        ELSE [ok |-> TRUE,
              val |-> IF signed /\ tok[1] = "-" THEN 0 - DecimalVal(ds) ELSE DecimalVal(ds)]

\* part.split('-', 1): the text before the first '-' and the text after it
SplitFirstDash(part) ==
    LET i == CHOOSE k \in DOMAIN part : part[k] = "-" /\ \A m \in 1..(k - 1) : part[m] # "-"
    IN  <<SubSeq(part, 1, i - 1), SubSeq(part, i + 1, Len(part))>>

\* range(a, b + 1) as a list
Range(a, b) == [i \in 1..(b - a + 1) |-> a + i - 1]

\* one turn of the for loop: the indices a token adds, or a rejection
TokenIndices(part, maxItems) ==
    IF \E k \in DOMAIN part : part[k] = "-"
    THEN LET se    == SplitFirstDash(part)
             start == IntParse(se[1])
             end   == IntParse(se[2])
         IN  IF ~start.ok \/ ~end.ok THEN [ok |-> FALSE, idxs |-> <<>>]
             ELSE IF /\ 1 <= start.val /\ start.val <= maxItems
                     /\ 1 <= end.val /\ end.val <= maxItems
                     /\ start.val <= end.val
                  THEN [ok |-> TRUE, idxs |-> Range(start.val, end.val)]
                  ELSE [ok |-> FALSE, idxs |-> <<>>]
    ELSE LET num == IntParse(part)
         IN  IF ~num.ok THEN [ok |-> FALSE, idxs |-> <<>>]
             ELSE IF 1 <= num.val /\ num.val <= maxItems
                  THEN [ok |-> TRUE, idxs |-> <<num.val>>]
                  ELSE [ok |-> FALSE, idxs |-> <<>>]

\* sorted(list(set(indices)))
RECURSIVE SortedSetDescending(_)
SortedSetDescending(S) ==
    IF S = {} THEN <<>>
    ELSE LET m == CHOOSE x \in S : \A y \in S : x >= y
         IN  <<m>> \o SortedSetDescending(S \ {m})

RECURSIVE SortedSet(_)
SortedSet(S) ==
    IF S = {} THEN <<>>
    ELSE LET m == CHOOSE x \in S : \A y \in S : x <= y
         IN  <<m>> \o SortedSet(S \ {m})

SeqToSet(s) == {s[i] : i \in DOMAIN s}

\* the for loop over the tokens: the first rejected token returns []
RECURSIVE ParsePartsSkippingBad(_, _, _)
ParsePartsSkippingBad(parts, maxItems, indices) ==
    IF parts = <<>> THEN SortedSet(SeqToSet(indices))
    ELSE LET t == TokenIndices(Head(parts), maxItems)
         IN  ParsePartsSkippingBad(Tail(parts), maxItems,
                                   IF t.ok THEN indices \o t.idxs ELSE indices)

RECURSIVE ParseParts(_, _, _)
ParseParts(parts, maxItems, indices) ==
    IF parts = <<>> THEN SortedSet(SeqToSet(indices))
    ELSE LET t == TokenIndices(Head(parts), maxItems)
         IN  IF ~t.ok THEN <<>>
             ELSE ParseParts(Tail(parts), maxItems, indices \o t.idxs)

parse_selection(sel, maxItems) ==
    IF Lower(sel) = <<"a", "l", "l">> THEN Range(1, maxItems)
    ELSE ParseParts(SplitWhitespace(Replace(sel, ",", " ")), maxItems, <<>>)

(***************************************************************************)
(* The filesystem.  The tree below the scan root /r:                       *)
(*     /r/a   /r/a/b   /r/a/b/f   /r/a/g   /r/h   /r/.c   /r/.c/k          *)
(*     /r/.c/d   /r/.c/d/m   /r/.n                                         *)
(* kind is "none" (no such path), "file", "dir", "linkf" (symlink to a     *)
(* file), "linkd" (symlink to a directory), "fifo" (a special file) or     *)
(* "badfile" (a file os.walk lists but whose size cannot be read: access   *)
(* is denied, or it vanished after the listing).                           *)
(* size is st_size as os.path.getsize reports it, which follows symlinks:  *)
(* for a linkf the size of its target; for a linkd the total of the files  *)
(* below its target.                                                       *)
(***************************************************************************)
Root == <<"/", "r">>
pA == PathJoin(Root, <<"a">>)
pB == PathJoin(pA, <<"b">>)
pF == PathJoin(pB, <<"f">>)
pG == PathJoin(pA, <<"g">>)
pH == PathJoin(Root, <<"h">>)
pC == PathJoin(Root, <<".", "c">>)
pK == PathJoin(pC, <<"k">>)
pD == PathJoin(pC, <<"d">>)
pM == PathJoin(pD, <<"m">>)
pN == PathJoin(Root, <<".", "n">>)

\* os.scandir order
Listing == <<pA, pB, pF, pG, pH, pC, pK, pD, pM, pN>>

Paths == {Root} \cup SeqToSet(Listing)

\* os.path.dirname and os.path.basename
Dirname(p) ==
    LET segs == Split(p, "/") IN JoinWith(SubSeq(segs, 1, Len(segs) - 1), "/")

Basename(p) == LET segs == Split(p, "/") IN segs[Len(segs)]

\* q is p or lies below p
RECURSIVE AtOrBelow(_, _)
AtOrBelow(q, p) ==
    \/ q = p
    \/ Len(q) > Len(p) /\ AtOrBelow(Dirname(q), p)

Below(q, p) == q # p /\ AtOrBelow(q, p)

Sizes == 1..MaxSize

NoNode == [kind |-> "none", size |-> 0]

\* the kinds of /r/a, /r/a/b, /r/a/g, /r/.c, /r/.c/d and /r/.n the model starts from
Shapes ==
    { [a |-> "dir",   b |-> "dir",   g |-> "file",  c |-> "dir",  d |-> "none", n |-> "none"],
      [a |-> "dir",   b |-> "linkd", g |-> "linkf", c |-> "none", d |-> "none", n |-> "none"],
      [a |-> "linkd", b |-> "none",  g |-> "none",  c |-> "dir",  d |-> "none", n |-> "none"],
      [a |-> "dir",   b |-> "dir",   g |-> "fifo",  c |-> "none", d |-> "none", n |-> "none"],
      [a |-> "dir",   b |-> "none",  g |-> "file",  c |-> "none", d |-> "none", n |-> "none"] }

\* trees with a dot file in the root and a directory two levels below a dot directory
DotShapes ==
    { [a |-> "dir",   b |-> "none",  g |-> "file",  c |-> "dir",  d |-> "dir",  n |-> "file"],
      [a |-> "none",  b |-> "none",  g |-> "none",  c |-> "dir",  d |-> "dir",  n |-> "linkf"] }

\* the filesystem of shape sh with file sizes sz (in MiB)
MakeFs(sh, sz) ==
    LET aDir == sh.a = "dir"
        node(k, n) == IF k = "none" THEN NoNode
                      ELSE [kind |-> k, size |-> IF k \in {"fifo", "dir"} THEN 0 ELSE n * MiB]
    IN  [p \in Paths |->
            IF p = Root THEN [kind |-> "dir", size |-> 0]
            ELSE IF p = pA THEN node(sh.a, 1)
            ELSE IF p = pB THEN IF aDir THEN node(sh.b, 1) ELSE NoNode
            ELSE IF p = pF THEN IF aDir /\ sh.b = "dir" THEN node("file", sz.f) ELSE NoNode
            ELSE IF p = pG THEN IF aDir THEN node(sh.g, sz.g) ELSE NoNode
            ELSE IF p = pH THEN node("file", sz.h)
            ELSE IF p = pC THEN node(sh.c, 1)
            ELSE IF p = pK THEN IF sh.c = "dir" THEN node("file", sz.h) ELSE NoNode
            ELSE IF p = pD THEN IF sh.c = "dir" THEN node(sh.d, 1) ELSE NoNode
            ELSE IF p = pM THEN IF sh.c = "dir" /\ sh.d = "dir" THEN node("file", sz.f) ELSE NoNode
            ELSE node(sh.n, sz.g)]

InitialFilesystems ==
    {MakeFs(sh, sz) : sh \in Shapes, sz \in [f : Sizes, g : Sizes, h : Sizes]}

\* trees with a file whose size cannot be read, next to a directory or to a file
UnreadableShapes ==
    { [a |-> "dir",   b |-> "dir",   g |-> "badfile", c |-> "none", d |-> "none", n |-> "none"],
      [a |-> "dir",   b |-> "none",  g |-> "file",    c |-> "none", d |-> "none", n |-> "badfile"] }

UnreadableFilesystems ==
    {MakeFs(sh, sz) : sh \in UnreadableShapes, sz \in [f : Sizes, g : Sizes, h : Sizes]}

DotFilesystems ==
    {MakeFs(sh, sz) : sh \in DotShapes, sz \in [f : Sizes, g : Sizes, h : Sizes]}

\* trees in which the path given as scan root is missing or is a regular file
InvalidRootFilesystems ==
    { [p \in Paths |-> NoNode],
      [p \in Paths |-> IF p = Root THEN [kind |-> "file", size |-> MiB] ELSE NoNode] }

\* os.path.exists, isfile, isdir (all follow symlinks) and islink
Exists(f, p) == f[p].kind # "none"
IsFile(f, p) == f[p].kind \in {"file", "linkf"}
IsDir(f, p) == f[p].kind \in {"dir", "linkd"}
IsLink(f, p) == f[p].kind \in {"linkf", "linkd"}

\* the entries of directory d, in scandir order
Entries(f, d) == SelectSeq(Listing, LAMBDA q : Dirname(q) = d /\ Exists(f, q))

\* os.walk's split of the entries of d into dirnames and filenames
DirNames(f, d) == SelectSeq(Entries(f, d), LAMBDA q : IsDir(f, q))
FileNames(f, d) == SelectSeq(Entries(f, d), LAMBDA q : ~IsDir(f, q))

LeftInPlace(f, p) == f

\* the filesystem after p and everything below it is gone
Unlinked(f, p) == [q \in Paths |-> IF AtOrBelow(q, p) THEN NoNode ELSE f[q]]

(***************************************************************************)
(* Configuration (DiskfaceConfig): the exclusion patterns and settings.    *)
(***************************************************************************)
ExclusionSets ==
    { {},
      {<<"/", "r", "/", "a">>},
      {<<"b">>},
      {<<"*", "*", "/", "g">>} }

\* interactive is the command line's -i/--interactive (args.interactive); the other
\* fields are the exclusions and the settings of config.json
Configs(excls, thresholds, fileFlags, dirFlags, dotFlags, interFlags) ==
    [exclusions : excls, min_size_mb : thresholds, scan_files : fileFlags,
     scan_directories : dirFlags, ignore_dotfolders : dotFlags,
     interactive : interFlags, interactive_by_default : {FALSE},
     entries_to_show : 1..MaxShow]

(***************************************************************************)
(* analyze_disk_usage.                                                     *)
(***************************************************************************)
\* sum of e[2] over a sequence of (path, size) pairs
RECURSIVE SumSizes(_)
SumSizes(es) == IF es = <<>> THEN 0 ELSE Head(es)[2] + SumSizes(Tail(es))

\* any(part.startswith('.') for part in Path(dirpath).parts)
HasDotPart(dirpath) ==
    LET parts == PathParts(dirpath) IN \E i \in DOMAIN parts : StartsWithDot(parts[i])

\* lines 461-465 and 471-474: the directory is skipped as a whole
InDotDirectory(c, dirpath) == c.ignore_dotfolders /\ HasDotPart(dirpath)

\* lines 466-467: dirnames[:] after the dot filter and the exclusion filter
PrunedDirNamesKeepingExcluded(f, c, dirpath) ==
    LET all == DirNames(f, dirpath)
    IN  IF InDotDirectory(c, dirpath) THEN <<>>
        ELSE IF c.ignore_dotfolders
        THEN SelectSeq(all, LAMBDA q : ~StartsWithDot(Basename(q)))
        ELSE all

\* lines 466-467 without the dot filter of line 465
PrunedDirNamesKeepingDots(f, c, dirpath) ==
    IF InDotDirectory(c, dirpath) THEN <<>>
    ELSE SelectSeq(DirNames(f, dirpath), LAMBDA q : ~should_exclude(q, c.exclusions))

PrunedDirNames(f, c, dirpath) ==
    LET all    == DirNames(f, dirpath)
        nodots == IF c.ignore_dotfolders
                  THEN SelectSeq(all, LAMBDA q : ~StartsWithDot(Basename(q)))
                  ELSE all
    IN  IF InDotDirectory(c, dirpath) THEN <<>>
        ELSE SelectSeq(nodots, LAMBDA q : ~should_exclude(q, c.exclusions))

\* lines 479-482 and 498-501: the files of dirpath whose size is read
CountedFiles(f, c, dirpath) ==
    SelectSeq(FileNames(f, dirpath),
              LAMBDA q : /\ ~(c.ignore_dotfolders /\ StartsWithDot(Basename(q)))
                         /\ ~IsLink(f, q)
                         /\ ~should_exclude(q, c.exclusions))

\* os.path.getsize(fp) returns a size; otherwise it raises OSError
Readable(f, q) == f[q].kind # "badfile"

\* lines 483-486 and 502-513 without the except branch: every size is read
ReadFilesIgnoringErrors(f, c, dirpath) == CountedFiles(f, c, dirpath)

\* lines 483-486 and 502-513: the files of dirpath whose size was read; the
\* exception raised for the others is caught and the loop goes on
ReadFiles(f, c, dirpath) ==
    SelectSeq(CountedFiles(f, c, dirpath), LAMBDA q : Readable(f, q))

FileEntries(f, files) == [i \in DOMAIN files |-> <<files[i], f[files[i]].size>>]

\* lines 478-486: dir_size of dirpath
DirSize(f, c, dirpath) == SumSizes(FileEntries(f, ReadFiles(f, c, dirpath)))

\* line 438
MinBytes(c) == c.min_size_mb * MiB

\* lines 477-488: the directory entry appended for dirpath, if any
DirEntries(f, c, dirpath) ==
    IF c.scan_directories /\ DirSize(f, c, dirpath) >= MinBytes(c)
    THEN <<<<dirpath, DirSize(f, c, dirpath)>>>>
    ELSE <<>>

\* lines 497-505: the file entries appended for dirpath
FileEntriesOfAnySize(f, c, dirpath) ==
    IF c.scan_files THEN FileEntries(f, ReadFiles(f, c, dirpath)) ELSE <<>>

BigFileEntries(f, c, dirpath) ==
    IF c.scan_files
    THEN SelectSeq(FileEntries(f, ReadFiles(f, c, dirpath)),
                   LAMBDA e : e[2] >= MinBytes(c))
    ELSE <<>>

\* sorted(results, key=lambda x: x[1], reverse=True): a stable sort, as an
\* insertion sort that puts an entry behind the entries of the same size
RECURSIVE InsertDescReversingTies(_, _)
InsertDescReversingTies(e, s) ==
    IF s = <<>> THEN <<e>>
    ELSE IF Head(s)[2] > e[2] THEN <<Head(s)>> \o InsertDescReversingTies(e, Tail(s))
    ELSE <<e>> \o s

RECURSIVE InsertDesc(_, _)
InsertDesc(e, s) ==
    IF s = <<>> THEN <<e>>
    ELSE IF Head(s)[2] >= e[2] THEN <<Head(s)>> \o InsertDesc(e, Tail(s))
    ELSE <<e>> \o s

RECURSIVE SortedDesc(_)
SortedDesc(es) ==
    IF es = <<>> THEN <<>>
    ELSE InsertDesc(es[Len(es)], SortedDesc(SubSeq(es, 1, Len(es) - 1)))

\* cmd_scan without lines 534-540: the scan starts whatever the root is
CmdScanWithoutValidation ==
    /\ pc = "start"
    /\ pc' = "walk"
    /\ todo' = <<Root>>
    /\ UNCHANGED <<fs, cfg, visited, sized, results, ranked, selected, answer, items,
                   idx, removed, log, ext, selection, max_items, parsed,
                   arg_path, arg_pattern, matches, calls, prev_log>>

\* cmd_scan lines 534-549: the root is checked and the scan starts
CmdScanValidate ==
    /\ pc = "start"
    /\ IF Exists(fs, Root) /\ IsDir(fs, Root)
       THEN pc' = "walk" /\ todo' = <<Root>>
       ELSE pc' = "done" /\ todo' = <<>>
    /\ UNCHANGED <<fs, cfg, visited, sized, results, ranked, selected, answer, items,
                   idx, removed, log, ext, selection, max_items, parsed,
                   arg_path, arg_pattern, matches, calls, prev_log>>

\* one turn of the for loop over os.walk(root, topdown=True), lines 459-513
WalkStep ==
    /\ pc = "walk"
    /\ todo # <<>>
    /\ LET dirpath  == Head(todo)
           dirnames == PrunedDirNames(fs, cfg, dirpath)
           \* os.walk recurses into the directories that are not symlinks
           descend  == SelectSeq(dirnames, LAMBDA q : ~IsLink(fs, q))
           skip     == InDotDirectory(cfg, dirpath)
       IN  /\ todo' = descend \o Tail(todo)
           /\ visited' = Append(visited, dirpath)
           /\ sized' = IF skip \/ ~(cfg.scan_directories \/ cfg.scan_files)
                       THEN sized
                       ELSE sized \cup SeqToSet(CountedFiles(fs, cfg, dirpath))
           /\ results' = IF skip THEN results
                         ELSE results \o DirEntries(fs, cfg, dirpath)
                                      \o BigFileEntries(fs, cfg, dirpath)
    /\ UNCHANGED <<fs, cfg, pc, ranked, selected, answer, items, idx, removed,
                   log, ext, selection, max_items, parsed,
                   arg_path, arg_pattern, matches, calls, prev_log>>

\* line 515: the walk is over, the sorted list is returned
ScanReturn ==
    /\ pc = "walk"
    /\ todo = <<>>
    /\ ranked' = SortedDesc(results)
    /\ pc' = "ask"
    /\ UNCHANGED <<fs, cfg, todo, visited, sized, results, selected, answer, items,
                   idx, removed, log, ext, selection, max_items, parsed,
                   arg_path, arg_pattern, matches, calls, prev_log>>

NextScan == CmdScanValidate \/ WalkStep \/ ScanReturn

InitIdle ==
    /\ todo = <<>> /\ visited = <<>> /\ sized = {} /\ results = <<>> /\ ranked = <<>>
    /\ selected = <<>> /\ answer = "none" /\ items = <<>> /\ idx = 1 /\ removed = <<>>
    /\ log = <<>> /\ ext = 0
    /\ selection = <<>> /\ max_items = 0 /\ parsed = <<>>
    /\ arg_path = <<>> /\ arg_pattern = <<>> /\ matches = FALSE
    /\ calls = 0 /\ prev_log = <<>>

\* a scan of any initial filesystem under any configuration
InitScan ==
    /\ fs \in InitialFilesystems
    /\ cfg \in Configs(ExclusionSets, 0..MaxSize, BOOLEAN, BOOLEAN, BOOLEAN, {FALSE})
    /\ pc = "start"
    /\ InitIdle

SpecScan == InitScan /\ [][NextScan]_vars

\* the directories analyze_disk_usage is handed as root when called on its own
WalkRoots == {Root, pA, pC}

NextWalk == WalkStep \/ ScanReturn

\* analyze_disk_usage(root, exclusions, min_size_mb) called on any directory of
\* any initial filesystem, lines 436-457
InitWalk ==
    /\ fs \in InitialFilesystems \cup DotFilesystems \cup UnreadableFilesystems
    /\ cfg \in Configs(ExclusionSets, {0, 1}, BOOLEAN, BOOLEAN, BOOLEAN, {FALSE})
    /\ cfg.entries_to_show = 1
    /\ pc = "walk"
    /\ visited = <<>> /\ sized = {} /\ results = <<>> /\ ranked = <<>>
    /\ selected = <<>> /\ answer = "none" /\ items = <<>> /\ idx = 1 /\ removed = <<>>
    /\ log = <<>> /\ ext = 0
    /\ selection = <<>> /\ max_items = 0 /\ parsed = <<>>
    /\ arg_path = <<>> /\ arg_pattern = <<>> /\ matches = FALSE
    /\ calls = 0 /\ prev_log = <<>>
    /\ \E root \in WalkRoots : fs[root].kind = "dir" /\ todo = <<root>>

SpecWalk == InitWalk /\ [][NextWalk]_vars

(***************************************************************************)
(* safe_remove_items.  The loop is modelled in two steps per item, split   *)
(* where another process can change the filesystem between the program's   *)
(* system calls: RemoveCheck is the os.path.exists test of line 259,       *)
(* RemoveDo is lines 264-288 (classify, measure, delete, record).          *)
(* log records, per finished item, its path, the kind the path had when    *)
(* the loop handled it, and the outcome: "missing" (lines 260-261),        *)
(* "removed" (the delete call completed), "failed" (it raised) or          *)
(* "nodelete" (neither a file nor a directory: no delete call is made).    *)
(***************************************************************************)
\* removed[path] = size on a dict that keeps insertion order
DictPut(d, k, v) ==
    IF \E i \in DOMAIN d : d[i][1] = k
    THEN [i \in DOMAIN d |-> IF d[i][1] = k THEN <<k, v>> ELSE d[i]]
    ELSE Append(d, <<k, v>>)

DictKeys(d) == [i \in DOMAIN d |-> d[i][1]]

DictGet(d, k) == (CHOOSE e \in SeqToSet(d) : e[1] = k)[2]

\* line 259: not os.path.exists(path)
NeverMissing(f, path) == FALSE

PathMissing(f, path) == ~Exists(f, path)

\* lines 270-277: the sum, over os.walk(path), of the sizes of the files that are
\* not symlinks; os.walk lists a symlinked top directory and enters no other symlink
WalkSizeDirectFilesOnly(f, path) ==
    IF f[path].kind = "linkd" THEN f[path].size
    ELSE SumSizes(FileEntries(f,
             SelectSeq(FileNames(f, path), LAMBDA q : ~IsLink(f, q))))

\* lines 270-277 without the islink test of line 274
WalkSizeCountingLinks(f, path) ==
    IF f[path].kind = "linkd" THEN f[path].size
    ELSE SumSizes(FileEntries(f,
             SelectSeq(Listing, LAMBDA q : /\ Below(q, path) /\ Exists(f, q)
                                           /\ ~IsDir(f, q))))

WalkSize(f, path) ==
    IF f[path].kind = "linkd" THEN f[path].size
    ELSE SumSizes(FileEntries(f,
             SelectSeq(Listing, LAMBDA q : /\ Below(q, path) /\ Exists(f, q)
                                           /\ ~IsDir(f, q) /\ ~IsLink(f, q))))

\* lines 264-277: actual_size
ActualSize(f, path) ==
    IF IsFile(f, path) THEN f[path].size
    ELSE IF IsDir(f, path) THEN WalkSize(f, path)
    ELSE 0

\* whether lines 265-278 make a delete call for path at all
CallsDelete(f, path) == IsFile(f, path) \/ IsDir(f, path)

\* the outcomes of lines 265-278: no delete call for a path that is neither a file
\* nor a directory; shutil.rmtree refuses a symlink; os.remove and shutil.rmtree
\* complete or raise
DeleteOutcomes(f, path) ==
    IF ~CallsDelete(f, path) THEN {"nodelete"}
    ELSE IF f[path].kind = "linkd" THEN {"oserror"}
    ELSE {"ok", "permission", "oserror"}

\* lines 283-288: where the loop goes after a delete call that raised
AbortAfterFailure(i) == Len(items) + 1

AfterFailure(i) == i + 1

LogEntry(path, kind, outcome) == [path |-> path, kind |-> kind, outcome |-> outcome]

\* line 259: the item is reached and its path tested
RemoveCheck ==
    /\ pc = "rm_check"
    /\ idx <= Len(items)
    /\ IF PathMissing(fs, items[idx][1])
       THEN /\ idx' = idx + 1                       \* lines 260-261: skipped
            /\ pc' = "rm_check"
            /\ log' = Append(log, LogEntry(items[idx][1], "none", "missing"))
       ELSE /\ idx' = idx
            /\ pc' = "rm_do"
            /\ log' = log
    /\ UNCHANGED <<fs, cfg, todo, visited, sized, results, ranked, selected, answer,
                   items, removed, ext, selection, max_items, parsed,
                   arg_path, arg_pattern, matches, calls, prev_log>>

\* lines 264-288 for the item at idx: line 280 records the path unless the delete
\* call raised, so also when no delete call was made
RemoveDo ==
    /\ pc = "rm_do"
    /\ \E outcome \in DeleteOutcomes(fs, items[idx][1]) :
          LET path == items[idx][1]
              recorded == outcome \in {"ok", "nodelete"}
              result == IF outcome = "ok" THEN "removed"
                        ELSE IF outcome = "nodelete" THEN "nodelete" ELSE "failed"
          IN  /\ fs' = IF outcome = "ok" THEN Unlinked(fs, path) ELSE fs
              /\ removed' = IF recorded THEN DictPut(removed, path, ActualSize(fs, path))
                            ELSE removed
              /\ log' = Append(log, LogEntry(path, fs[path].kind, result))
              /\ idx' = IF recorded THEN idx + 1 ELSE AfterFailure(idx)
    /\ pc' = "rm_check"
    /\ UNCHANGED <<cfg, todo, visited, sized, results, ranked, selected, answer,
                   items, ext, selection, max_items, parsed,
                   arg_path, arg_pattern, matches, calls, prev_log>>

\* line 290: the loop is over, the report is returned
RemoveReturn ==
    /\ pc = "rm_check"
    /\ idx > Len(items)
    /\ pc' = "done"
    /\ calls' = calls + 1
    /\ UNCHANGED <<fs, cfg, todo, visited, sized, results, ranked, selected, answer,
                   items, idx, removed, log, ext, selection, max_items, parsed,
                   arg_path, arg_pattern, matches, prev_log>>

(***************************************************************************)
(* Other processes.  While safe_remove_items runs, another process may     *)
(* delete a path or change a file's size.  Only a change at or below the   *)
(* path of an item the loop has not finished can be observed by the loop.  *)
(***************************************************************************)
Pending(p) ==
    /\ pc \in {"rm_check", "rm_do"}
    /\ \E i \in idx..Len(items) : AtOrBelow(p, items[i][1])

ExternalDelete ==
    /\ ext < MaxExt
    /\ \E p \in Paths :
          /\ Exists(fs, p)
          /\ Pending(p)
          /\ fs' = Unlinked(fs, p)
    /\ ext' = ext + 1
    /\ UNCHANGED <<cfg, pc, todo, visited, sized, results, ranked, selected, answer,
                   items, idx, removed, log, selection, max_items, parsed,
                   arg_path, arg_pattern, matches, calls, prev_log>>

ExternalResize ==
    /\ ext < MaxExt
    /\ \E p \in Paths, n \in Sizes :
          /\ fs[p].kind = "file"
          /\ Pending(p)
          /\ fs[p].size # n * MiB
          /\ fs' = [fs EXCEPT ![p].size = n * MiB]
    /\ ext' = ext + 1
    /\ UNCHANGED <<cfg, pc, todo, visited, sized, results, ranked, selected, answer,
                   items, idx, removed, log, selection, max_items, parsed,
                   arg_path, arg_pattern, matches, calls, prev_log>>

NextRemove == RemoveCheck \/ RemoveDo \/ RemoveReturn \/ ExternalDelete \/ ExternalResize

\* the paths safe_remove_items is handed when called on its own
RemovalTargets == {pA, pB, pG, pH}

\* lists of at most n items with a stale expected size of 0
RECURSIVE ItemLists(_)
ItemLists(n) ==
    IF n = 0 THEN {<<>>}
    ELSE LET shorter == ItemLists(n - 1)
         IN  shorter \cup
             {Append(l, <<p, 0>>) : l \in {s \in shorter : Len(s) = n - 1},
                                    p \in RemovalTargets}

DistinctPaths(l) == \A i, j \in DOMAIN l : i # j => l[i][1] # l[j][1]

\* safe_remove_items called with any list of distinct items on any filesystem
InitRemove ==
    /\ fs \in InitialFilesystems
    /\ cfg \in Configs({{}}, {0}, {TRUE}, {TRUE}, {FALSE}, {FALSE})
    /\ \E l \in ItemLists(MaxItems) : DistinctPaths(l) /\ items = l
    /\ pc = "rm_check"
    /\ todo = <<>> /\ visited = <<>> /\ sized = {} /\ results = <<>> /\ ranked = <<>>
    /\ selected = <<>> /\ answer = "none" /\ idx = 1 /\ removed = <<>>
    /\ log = <<>> /\ ext = 0
    /\ selection = <<>> /\ max_items = 0 /\ parsed = <<>>
    /\ arg_path = <<>> /\ arg_pattern = <<>> /\ matches = FALSE
    /\ calls = 0 /\ prev_log = <<>>

\* the caller calls safe_remove_items once more with the same items, after a call
\* that removed every one of them
RemoveAgain ==
    /\ pc = "done"
    /\ calls = 1
    /\ log # <<>>
    /\ \A k \in DOMAIN log : log[k].outcome = "removed"
    /\ pc' = "rm_check"
    /\ idx' = 1
    /\ removed' = <<>>
    /\ prev_log' = log
    /\ log' = <<>>
    /\ UNCHANGED <<fs, cfg, todo, visited, sized, results, ranked, selected, answer,
                   items, ext, selection, max_items, parsed,
                   arg_path, arg_pattern, matches, calls>>

SpecRemoveTwice == InitRemove /\ [][NextRemove \/ RemoveAgain]_vars

SpecRemove == InitRemove /\ [][NextRemove]_vars

\* the control step of RemoveDo: RemoveDo is the only action that leaves "rm_do",
\* and it can be taken in every such state (DeleteOutcomes is never empty)
RemoveDoControl == pc = "rm_do" /\ pc' = "rm_check"

\* the loop is sequential code whose system calls return: its next step is
\* eventually taken, whatever other processes do
SpecRemoveFair ==
    /\ SpecRemove
    /\ WF_vars(RemoveCheck \/ RemoveReturn)
    /\ WF_pc(RemoveDoControl)

(***************************************************************************)
(* cmd_scan after the scan, and interactive_selection.                     *)
(***************************************************************************)
\* line 574: args always has the attribute "interactive"
Interactive(c) == c.interactive

\* line 186 with max_display = entries_to_show * 3 (line 576)
DisplayResults(c, rs) ==
    SubSeq(rs, 1, IF Len(rs) < c.entries_to_show * 3 THEN Len(rs)
                  ELSE c.entries_to_show * 3)

\* what the user may type at the selection prompt
PromptInputs ==
    { <<"q">>, <<"2">>, <<"1", "-", "2">>, <<"2", "-", "3">>, <<"a", "l", "l">>,
      <<"x">>, <<"9">>, <<"2", " ", "x">> }

\* lines 574-576: in interactive mode interactive_selection is entered directly, and
\* returns [] at once when there are no results; otherwise, if there are results,
\* the user is asked whether to select items
AskRemoval ==
    /\ pc = "ask"
    /\ pc' = IF Interactive(cfg) THEN (IF ranked # <<>> THEN "prompt" ELSE "done")
             ELSE IF ranked # <<>> THEN "question" ELSE "done"
    /\ UNCHANGED <<fs, cfg, todo, visited, sized, results, ranked, selected, answer,
                   items, idx, removed, log, ext, selection, max_items, parsed,
                   arg_path, arg_pattern, matches, calls, prev_log>>

\* line 575: the reply to Confirm.ask("Select items for removal?")
AnswerQuestion ==
    /\ pc = "question"
    /\ \E reply \in BOOLEAN : pc' = IF reply THEN "prompt" ELSE "done"
    /\ UNCHANGED <<fs, cfg, todo, visited, sized, results, ranked, selected, answer,
                   items, idx, removed, log, ext, selection, max_items, parsed,
                   arg_path, arg_pattern, matches, calls, prev_log>>

\* lines 208-218: a selection is typed; 'q' returns [], an invalid one asks again
PromptSelect ==
    /\ pc = "prompt"
    /\ \E input \in PromptInputs :
          LET display == DisplayResults(cfg, ranked)
              indices == parse_selection(input, Len(display))
          IN  IF Lower(input) = <<"q">>
              THEN pc' = "done" /\ UNCHANGED selected
              ELSE IF indices = <<>>
              THEN pc' = "prompt" /\ UNCHANGED selected
              ELSE /\ pc' = "confirm"
                   /\ selected' = [i \in DOMAIN indices |-> display[indices[i]]]
    /\ UNCHANGED <<fs, cfg, todo, visited, sized, results, ranked, answer,
                   items, idx, removed, log, ext, selection, max_items, parsed,
                   arg_path, arg_pattern, matches, calls, prev_log>>

\* lines 234-237: where the loop goes on the user's reply to the confirmation
RemoveWhateverTheReply(reply) == "rm_check"

AfterConfirm(reply) == IF reply THEN "rm_check" ELSE "prompt"

\* lines 234-237 and cmd_scan lines 577-578: on yes the selected items are
\* returned and handed to safe_remove_items, on no the prompt is shown again
ConfirmRemoval ==
    /\ pc = "confirm"
    /\ \E reply \in BOOLEAN :
          /\ answer' = IF reply THEN "yes" ELSE "no"
          /\ pc' = AfterConfirm(reply)
          /\ IF AfterConfirm(reply) = "rm_check"
             THEN items' = selected /\ idx' = 1
             ELSE UNCHANGED <<items, idx>>
    /\ UNCHANGED <<fs, cfg, todo, visited, sized, results, ranked, selected,
                   removed, log, ext, selection, max_items, parsed,
                   arg_path, arg_pattern, matches, calls, prev_log>>

\* lines 239-241: Ctrl-C at a prompt returns []; at cmd_scan's own question it
\* ends the command
KeyboardInterrupt ==
    /\ pc \in {"question", "prompt", "confirm"}
    /\ pc' = "done"
    /\ UNCHANGED <<fs, cfg, todo, visited, sized, results, ranked, selected, answer,
                   items, idx, removed, log, ext, selection, max_items, parsed,
                   arg_path, arg_pattern, matches, calls, prev_log>>

\* the scan command, from the check of the root to the removal report, with no
\* other process changing the tree meanwhile
Next ==
    \/ CmdScanValidate \/ WalkStep \/ ScanReturn
    \/ AskRemoval \/ AnswerQuestion \/ PromptSelect \/ ConfirmRemoval
    \/ KeyboardInterrupt
    \/ RemoveCheck \/ RemoveDo \/ RemoveReturn

\* the scan command on any initial filesystem
Init ==
    /\ fs \in InitialFilesystems \cup InvalidRootFilesystems
    /\ cfg \in {[c EXCEPT !.interactive_by_default = byDefault] :
                    c \in Configs({{}, {<<"b">>}}, {0, 1}, {TRUE}, {TRUE}, {FALSE}, BOOLEAN),
                    byDefault \in BOOLEAN}
    /\ pc = "start"
    /\ InitIdle

Spec == Init /\ [][Next]_vars

(***************************************************************************)
(* parse_selection called on its own.                                      *)
(***************************************************************************)
ParseAlphabet == {"0", "1", "2", "3", "-", "+", ",", " ", "a"}

RECURSIVE StringsUpTo(_)
StringsUpTo(n) ==
    IF n = 0 THEN {<<>>}
    ELSE LET shorter == StringsUpTo(n - 1)
         IN  shorter \cup {Append(t, c) : t \in {u \in shorter : Len(u) = n - 1},
                                          c \in ParseAlphabet}

\* longer inputs of interest
ExtraSelections ==
    { <<"a", "l", "l">>, <<"A", "L", "L">>, <<"A", "l", "l">>,
      <<"a", "l", "l", " ", "1">>, <<" ", "a", "l", "l">>, <<"1", ",", "a", "l", "l">>,
      <<"1", "-", "2", "-", "3">>, <<"2", "-", "3", " ", "1">>,
      <<"1", " ", "2", " ", "x">>, <<"3", "-", "2", " ", "1">>,
      <<"1", "-", "-", "2">>, <<"1", "2">>, <<"2", " ", "1", "-", "3", " ", "2">> }

ParseSelectionCall ==
    /\ pc = "parse"
    /\ parsed' = parse_selection(selection, max_items)
    /\ pc' = "parsed"
    /\ UNCHANGED <<fs, cfg, todo, visited, sized, results, ranked, selected, answer,
                   items, idx, removed, log, ext, selection, max_items,
                   arg_path, arg_pattern, matches, calls, prev_log>>

InitParse ==
    /\ selection \in StringsUpTo(MaxLen) \cup ExtraSelections
    /\ max_items \in 0..MaxIndex
    /\ pc = "parse"
    /\ fs = [p \in Paths |-> IF p = Root THEN [kind |-> "dir", size |-> 0] ELSE NoNode]
    /\ cfg \in Configs({{}}, {0}, {TRUE}, {TRUE}, {FALSE}, {FALSE})
    /\ todo = <<>> /\ visited = <<>> /\ sized = {} /\ results = <<>> /\ ranked = <<>>
    /\ selected = <<>> /\ answer = "none" /\ items = <<>> /\ idx = 1 /\ removed = <<>>
    /\ log = <<>> /\ ext = 0 /\ parsed = <<>>
    /\ arg_path = <<>> /\ arg_pattern = <<>> /\ matches = FALSE
    /\ calls = 0 /\ prev_log = <<>>

SpecParse == InitParse /\ [][ParseSelectionCall]_vars

(***************************************************************************)
(* The simple analyzer, src/diskface/diskface.py: matches_any and analyze.  *)
(* Its configuration is the record [excludes, min_size_mb, skip_dotfolders, *)
(* depth, mode]: depth is args.depth (-1 when -D is not given), mode the   *)
(* argument of one analyze call.                                           *)
(***************************************************************************)
\* pat.split('**')[-1]: what follows the last "**", found from the left
RECURSIVE AfterLastDoubleStar(_)
AfterLastDoubleStar(pat) ==
    LET hits == {i \in 1..(Len(pat) - 1) : pat[i] = "*" /\ pat[i + 1] = "*"}
    IN  IF hits = {} THEN pat
        ELSE LET i == CHOOSE k \in hits : \A m \in hits : k <= m
             IN  AfterLastDoubleStar(SubSeq(pat, i + 2, Len(pat)))

\* lines 60-68 for one pattern
MatchesOne(path, pat) ==
    LET low == Lower(path)
    IN  IF IsAbsolute(pat) THEN fnmatch(low, Lower(PurePathStr(pat)))
        ELSE IF \E i \in 1..(Len(pat) - 1) : pat[i] = "*" /\ pat[i + 1] = "*"
        THEN fnmatch(low, <<"*">> \o Lower(AfterLastDoubleStar(pat)))
        ELSE fnmatch(low, Lower(pat))

matches_any(path, patterns) == \E pat \in patterns : MatchesOne(path, pat)

\* lines 105-108: dirnames[:] after the dot filter and the exclusion filter
SimpleDirNames(f, c, dirpath) ==
    SelectSeq(DirNames(f, dirpath),
              LAMBDA q : /\ ~(c.skip_dotfolders /\ StartsWithDot(Basename(q)))
                         /\ ~matches_any(q, c.excludes))

\* lines 107, 113 and 121: the files of dirpath whose size is read
SimpleFiles(f, c, dirpath) ==
    SelectSeq(FileNames(f, dirpath),
              LAMBDA q : /\ ~(c.skip_dotfolders /\ StartsWithDot(Basename(q)))
                         /\ ~IsLink(f, q)
                         /\ ~matches_any(q, c.excludes))

\* lines 109-127: what one turn of the loop appends to results
SimpleEntries(f, c, dirpath) ==
    LET sized_files == FileEntries(f, SimpleFiles(f, c, dirpath))
        min_b       == c.min_size_mb * MiB
    IN  IF c.mode = "dirs"
        THEN IF SumSizes(sized_files) >= min_b
             THEN <<<<dirpath, SumSizes(sized_files)>>>> ELSE <<>>
        ELSE SelectSeq(sized_files, LAMBDA e : e[2] >= min_b)

\* one turn of the for loop over os.walk(root), lines 104-127
AnalyzeStep ==
    /\ pc = "analyze"
    /\ todo # <<>>
    /\ LET dirpath  == Head(todo)
           dirnames == SimpleDirNames(fs, cfg, dirpath)
           descend  == SelectSeq(dirnames, LAMBDA q : ~IsLink(fs, q))
       IN  /\ todo' = descend \o Tail(todo)
           /\ visited' = Append(visited, dirpath)
           /\ results' = results \o SimpleEntries(fs, cfg, dirpath)
    /\ UNCHANGED <<fs, cfg, pc, sized, ranked, selected, answer, items, idx, removed,
                   log, ext, selection, max_items, parsed,
                   arg_path, arg_pattern, matches, calls, prev_log>>

\* line 129
AnalyzeReturn ==
    /\ pc = "analyze"
    /\ todo = <<>>
    /\ ranked' = SortedDesc(results)
    /\ pc' = "analyzed"
    /\ UNCHANGED <<fs, cfg, todo, visited, sized, results, selected, answer, items,
                   idx, removed, log, ext, selection, max_items, parsed,
                   arg_path, arg_pattern, matches, calls, prev_log>>

SimpleConfigs ==
    [excludes : {{}, {<<"*", "*", "/", "g">>}}, min_size_mb : {0, 1},
     skip_dotfolders : BOOLEAN, depth : (-1)..MaxDepth,
     mode : {"dirs", "files"}]

\* analyze(ROOT, config, m) on any initial filesystem (lines 177-183)
InitAnalyze ==
    /\ fs \in InitialFilesystems
    /\ cfg \in SimpleConfigs
    /\ pc = "analyze"
    /\ todo = <<Root>>
    /\ visited = <<>> /\ sized = {} /\ results = <<>> /\ ranked = <<>>
    /\ selected = <<>> /\ answer = "none" /\ items = <<>> /\ idx = 1 /\ removed = <<>>
    /\ log = <<>> /\ ext = 0
    /\ selection = <<>> /\ max_items = 0 /\ parsed = <<>>
    /\ arg_path = <<>> /\ arg_pattern = <<>> /\ matches = FALSE
    /\ calls = 0 /\ prev_log = <<>>

SpecAnalyze == InitAnalyze /\ [][AnalyzeStep \/ AnalyzeReturn]_vars

(***************************************************************************)
(* prune, src/prune.py.  The filesystem is the tree below /media: path ->   *)
(* [kind, age], age being the file's age in minutes as line 31 rounds it.  *)
(* The configuration is the record [dry, dontremove]: the argument of      *)
(* prune and the lines of the file /media/dontremove.                      *)
(***************************************************************************)
\* line 7
DAYS == 30
\* line 8
MINUTES == (DAYS * 24) * 60

\* sub in s
Contains(s, sub) ==
    \E i \in 0..(Len(s) - Len(sub)) : SubSeq(s, i + 1, i + Len(sub)) = sub

\* str.replace(c, "") for a one-character string c
Without(s, c) == SelectSeq(s, LAMBDA x : x # c)

\* str.strip()
RECURSIVE Strip(_)
Strip(s) ==
    IF s # <<>> /\ Head(s) \in {" ", "\n"} THEN Strip(Tail(s))
    ELSE IF s # <<>> /\ s[Len(s)] \in {" ", "\n"} THEN Strip(SubSeq(s, 1, Len(s) - 1))
    ELSE s

Media == <<"/", "m", "e", "d", "i", "a">>
Complete == Media \o <<"/", "d", "o", "w", "n", "l", "o", "a", "d", "s", "/",
                       "c", "o", "m", "p", "l", "e", "t", "e">>
mPlain == Media \o <<"/", "a", ".", "b">>
mDrive == Media \o <<"/", "d", "r", "i", "v", "e", "/", "a">>
mListed == Media \o <<"/", "k", "-", "e">>
mDownload == Complete \o <<"/", "a">>

\* line 15: what glob.glob('/media/**', recursive=True) returns
MediaListing == <<mPlain, mDrive, mListed, Complete, mDownload>>

MediaPaths == SeqToSet(MediaListing)

\* line 17: the path holds one of the protected markers
HasMarker(file) ==
    \/ Contains(file, Media \o <<"/", "d", "r", "i", "v", "e">>)
    \/ Contains(file, Media \o <<"/", "j", "a", "x", "u", "p", "l", "o", "a", "d", "s", "/">>)
    \/ Contains(file, <<"d", "o", "n", "t", "r", "e", "m", "o", "v", "e">>)
    \/ Contains(file, <<"d", "o", "n", "t", "m", "o", "v", "e">>)
    \/ Contains(file, <<"p", "r", "o", "t", "e", "c", "t", "e", "d", ".", "l", "o", "g">>)

\* lines 38-39: a line of /media/dontremove protects the file
LineProtects(line, file) ==
    Contains(Strip(Without(Replace(Lower(file), ".", " "), "-")),
             Strip(Without(Lower(Split(line, ";")[1]), "\n")))

\* lines 33-43: delete after the age test and the lines of /media/dontremove
Delete(f, c, file) ==
    /\ f[file].age > MINUTES
    /\ \A i \in DOMAIN c.dontremove : ~LineProtects(c.dontremove[i], file)

\* one turn of the for loop of lines 16-60: the append to /media/deleted.log
\* (log) and, unless dry, os.remove
PruneStep ==
    /\ pc = "prune"
    /\ todo # <<>>
    /\ LET file == Head(todo)
           considered == ~HasMarker(file) /\ fs[file].kind = "file"
           delete == considered /\ Delete(fs, cfg, file)
       IN  /\ log' = IF delete THEN Append(log, file) ELSE log
           /\ fs' = IF delete /\ ~cfg.dry
                    THEN [fs EXCEPT ![file] = [kind |-> "none", age |-> 0]]
                    ELSE fs
    /\ todo' = Tail(todo)
    /\ UNCHANGED <<cfg, pc, visited, sized, results, ranked, selected, answer, items,
                   idx, removed, ext, selection, max_items, parsed,
                   arg_path, arg_pattern, matches, calls, prev_log>>

\* line 61: rm -rf /media/downloads/complete/* (and incomplete/*), then the return
PruneDownloads ==
    /\ pc = "prune"
    /\ todo = <<>>
    /\ fs' = [q \in MediaPaths |->
                IF Len(q) > Len(Complete) /\ SubSeq(q, 1, Len(Complete) + 1) = Complete \o <<"/">>
                THEN [kind |-> "none", age |-> 0] ELSE fs[q]]
    /\ pc' = "pruned"
    /\ UNCHANGED <<cfg, todo, visited, sized, results, ranked, selected, answer, items,
                   idx, removed, log, ext, selection, max_items, parsed,
                   arg_path, arg_pattern, matches, calls, prev_log>>

\* the contents of /media/dontremove: empty, a name, a name in upper case
\* followed by a comment
DontRemoveFiles ==
    { <<>>, << <<"k", "e", "\n">> >>, << <<" ", "K", "E", ";", "x", "\n">> >> }

\* prune(dry) on a tree whose files are just young enough or just old enough
InitPrune ==
    /\ fs \in {f \in [MediaPaths -> [kind : {"file", "dir"}, age : {MINUTES, MINUTES + 1}]] :
                  \A q \in MediaPaths : f[q].kind = "dir" <=> q = Complete}
    /\ cfg \in [dry : BOOLEAN, dontremove : DontRemoveFiles]
    /\ pc = "prune"
    /\ todo = MediaListing
    /\ visited = <<>> /\ sized = {} /\ results = <<>> /\ ranked = <<>>
    /\ selected = <<>> /\ answer = "none" /\ items = <<>> /\ idx = 1 /\ removed = <<>>
    /\ log = <<>> /\ ext = 0
    /\ selection = <<>> /\ max_items = 0 /\ parsed = <<>>
    /\ arg_path = <<>> /\ arg_pattern = <<>> /\ matches = FALSE
    /\ calls = 0 /\ prev_log = <<>>

SpecPrune == InitPrune /\ [][PruneStep \/ PruneDownloads]_vars

(***************************************************************************)
(* DiskFace3, src/diskface/__diskface.py: path_matches_pattern,            *)
(* build_table and analyze_usage.  Its configuration is the record of the  *)
(* arguments of analyze_usage [root, excl, min_mb, ignore_dot, max_depth,  *)
(* file_mode]; max_depth is -1 when -D is not given (None).                *)
(***************************************************************************)
\* line 41
ENTRIES_TO_SHOW == 20

\* the filesystem root, the parent of /r
FsRoot == <<"/">>

\* s.count(os.sep)
CountSep(s) == Cardinality({i \in DOMAIN s : s[i] = "/"})

\* s.rstrip(os.sep)
RECURSIVE RStripSep(_)
RStripSep(s) ==
    IF s # <<>> /\ s[Len(s)] = "/" THEN RStripSep(SubSeq(s, 1, Len(s) - 1)) ELSE s

\* lines 86-94
usage_path_matches_pattern(path, pattern) ==
    LET low == Lower(path)
    IN  IF IsAbsolute(pattern) THEN fnmatch(low, Lower(PurePathStr(pattern)))
        ELSE IF \E i \in 1..(Len(pattern) - 1) : pattern[i] = "*" /\ pattern[i + 1] = "*"
        THEN fnmatch(low, <<"*">> \o Lower(AfterLastDoubleStar(pattern)))
        ELSE fnmatch(low, Lower(pattern))

\* line 96
usage_should_exclude(path, excl) == \E pat \in excl : usage_path_matches_pattern(path, pat)

\* line 120: top = results[:ENTRIES_TO_SHOW], the rows of the table
build_table(res) ==
    SubSeq(res, 1, IF Len(res) < ENTRIES_TO_SHOW THEN Len(res) ELSE ENTRIES_TO_SHOW)

\* line 134: base_d
BaseDepth(root) == CountSep(RStripSep(root))

\* os.walk's dirnames and filenames of dp; the filesystem root holds /r only
UsageDirNames(f, dp) == IF dp = FsRoot THEN <<Root>> ELSE DirNames(f, dp)
UsageFileNames(f, dp) == IF dp = FsRoot THEN <<>> ELSE FileNames(f, dp)

\* lines 142-143: the depth limit is reached at dp
DepthLimitReached(c, dp) ==
    c.max_depth # -1 /\ CountSep(dp) - BaseDepth(c.root) >= c.max_depth

\* lines 142-147: dns[:] after the depth limit, the dot filter and the exclusion filter
UsageDirs(f, c, dp) ==
    IF DepthLimitReached(c, dp) THEN <<>>
    ELSE SelectSeq(UsageDirNames(f, dp),
                   LAMBDA q : /\ ~(c.ignore_dot /\ StartsWithDot(Basename(q)))
                              /\ ~usage_should_exclude(q, c.excl))

\* lines 146, 150-152 and 159-162: the files of dp whose size is read
UsageFiles(f, c, dp) ==
    SelectSeq(UsageFileNames(f, dp),
              LAMBDA q : /\ ~(c.ignore_dot /\ StartsWithDot(Basename(q)))
                         /\ ~IsLink(f, q)
                         /\ ~usage_should_exclude(q, c.excl))

\* lines 149-168: what one turn of the loop appends to res
UsageEntries(f, c, dp) ==
    LET sized_files == FileEntries(f, UsageFiles(f, c, dp))
        min_b       == c.min_mb * MiB
    IN  IF c.file_mode
        THEN SelectSeq(sized_files, LAMBDA e : e[2] >= min_b)
        ELSE IF SumSizes(sized_files) >= min_b
             THEN <<<<dp, SumSizes(sized_files)>>>> ELSE <<>>

\* one turn of the for loop over os.walk(root, topdown=True), lines 140-168
UsageStep ==
    /\ pc = "usage"
    /\ todo # <<>>
    /\ LET dp      == Head(todo)
           dns     == UsageDirs(fs, cfg, dp)
           descend == SelectSeq(dns, LAMBDA q : ~IsLink(fs, q))
       IN  /\ todo' = descend \o Tail(todo)
           /\ visited' = Append(visited, dp)
           /\ results' = results \o UsageEntries(fs, cfg, dp)
    /\ UNCHANGED <<fs, cfg, pc, sized, ranked, selected, answer, items, idx, removed,
                   log, ext, selection, max_items, parsed,
                   arg_path, arg_pattern, matches, calls, prev_log>>

\* line 169
UsageReturn ==
    /\ pc = "usage"
    /\ todo = <<>>
    /\ ranked' = SortedDesc(results)
    /\ pc' = "usage_done"
    /\ UNCHANGED <<fs, cfg, todo, visited, sized, results, selected, answer, items,
                   idx, removed, log, ext, selection, max_items, parsed,
                   arg_path, arg_pattern, matches, calls, prev_log>>

\* lines 248 and 260: the arguments main hands to analyze_usage; root is a resolved
\* path, so it ends with a separator only when it is the filesystem root
UsageConfigs ==
    [root : {FsRoot, Root}, excl : {{}, {<<"b">>}}, min_mb : {0, 1},
     ignore_dot : BOOLEAN, max_depth : (-1)..MaxDepth, file_mode : BOOLEAN]

InitUsage ==
    /\ fs \in InitialFilesystems
    /\ cfg \in UsageConfigs
    /\ pc = "usage"
    /\ todo = <<cfg.root>>
    /\ visited = <<>> /\ sized = {} /\ results = <<>> /\ ranked = <<>>
    /\ selected = <<>> /\ answer = "none" /\ items = <<>> /\ idx = 1 /\ removed = <<>>
    /\ log = <<>> /\ ext = 0
    /\ selection = <<>> /\ max_items = 0 /\ parsed = <<>>
    /\ arg_path = <<>> /\ arg_pattern = <<>> /\ matches = FALSE
    /\ calls = 0 /\ prev_log = <<>>

SpecUsage == InitUsage /\ [][UsageStep \/ UsageReturn]_vars

(***************************************************************************)
(* path_matches_pattern called on its own.                                 *)
(***************************************************************************)
PathSegments == {<<"a">>, <<"A">>, <<"b">>}

PatternSegments == {<<"a">>, <<"A">>, <<"*">>, <<"?">>, <<"*", "*">>, <<"b", "*">>}

\* the lists of at most n segments taken from S
RECURSIVE SegmentLists(_, _)
SegmentLists(n, S) ==
    IF n = 0 THEN {<<>>}
    ELSE LET shorter == SegmentLists(n - 1, S)
         IN  shorter \cup {Append(l, x) : l \in {m \in shorter : Len(m) = n - 1}, x \in S}

\* the absolute and the relative path made of each list
PathsFrom(lists) ==
    {JoinWith(l, "/") : l \in lists} \cup {<<"/">> \o JoinWith(l, "/") : l \in lists}

\* further patterns: empty, character classes, trailing and doubled slashes, ".",
\* a "**" segment between two others and before a trailing slash
ExtraPatterns ==
    { <<"[", "a", "b", "]">>, <<"[", "!", "a", "]">>,
      <<"/", "a", "/", "[", "A", "B", "]">>, <<"a", "/">>, <<"/", "a", "/">>,
      <<".">>, <<"/", "/", "a">>, <<"/", "a", "/", "a", "/", "*">>,
      <<"b", "/", "*", "*", "/", "A">>, <<"*", "*", "/">> }

MatchPaths == PathsFrom(SegmentLists(MaxPathSegs, PathSegments))

MatchPatterns == PathsFrom(SegmentLists(MaxPatSegs, PatternSegments)) \cup ExtraPatterns

PathMatchesPatternCall ==
    /\ pc = "match"
    /\ matches' = path_matches_pattern(arg_path, arg_pattern)
    /\ pc' = "matched"
    /\ UNCHANGED <<fs, cfg, todo, visited, sized, results, ranked, selected, answer,
                   items, idx, removed, log, ext, selection, max_items, parsed,
                   arg_path, arg_pattern, calls, prev_log>>

InitMatch ==
    /\ arg_path \in MatchPaths
    /\ arg_pattern \in MatchPatterns
    /\ matches = FALSE
    /\ pc = "match"
    /\ fs = [p \in Paths |-> IF p = Root THEN [kind |-> "dir", size |-> 0] ELSE NoNode]
    /\ cfg \in {c \in Configs({{}}, {0}, {TRUE}, {TRUE}, {FALSE}, {FALSE}) :
                    c.entries_to_show = 1}
    /\ todo = <<>> /\ visited = <<>> /\ sized = {} /\ results = <<>> /\ ranked = <<>>
    /\ selected = <<>> /\ answer = "none" /\ items = <<>> /\ idx = 1 /\ removed = <<>>
    /\ log = <<>> /\ ext = 0
    /\ selection = <<>> /\ max_items = 0 /\ parsed = <<>>
    /\ calls = 0 /\ prev_log = <<>>

SpecMatch == InitMatch /\ [][PathMatchesPatternCall]_vars

(***************************************************************************)
(* Properties.                                                             *)
(***************************************************************************)
EntryPaths(es) == {es[i][1] : i \in DOMAIN es}

\* the directories below the root whose full path matches an exclusion pattern
ExcludedDirs ==
    {d \in Paths \ {Root} : IsDir(fs, d) /\ should_exclude(d, cfg.exclusions)}

\* C1: a directory below the root whose path matches an exclusion pattern is pruned
\* before recursion: nothing at or below it is visited, no file at or below it is
\* sized, and no live or final result lies at or below it.
C1_ExcludedDirectoryNeverEntered ==
    \A d \in ExcludedDirs : \A q \in Paths :
        AtOrBelow(q, d) =>
            /\ q \notin SeqToSet(visited)
            /\ q \notin sized
            /\ q \notin EntryPaths(results)
            /\ q \notin EntryPaths(ranked)

\* a finished scan that skipped an excluded directory holding a file which is big
\* enough to be reported and matches no pattern itself
C1_Witness ==
    /\ pc = "ask"
    /\ ranked # <<>>
    /\ cfg.scan_files
    /\ \E d \in ExcludedDirs : \E q \in Paths :
          /\ fs[d].kind = "dir"
          /\ Dirname(d) \in SeqToSet(visited)
          /\ Dirname(q) = d
          /\ fs[q].kind = "file"
          /\ fs[q].size >= MinBytes(cfg)
          /\ ~should_exclude(q, cfg.exclusions)

\* the non-excluded files below d, at any depth, that are not symlinks
DescendantFiles(f, c, d) ==
    SelectSeq(Listing, LAMBDA q : /\ Below(q, d) /\ Exists(f, q) /\ ~IsDir(f, q)
                                  /\ ~IsLink(f, q) /\ ~should_exclude(q, c.exclusions))

\* C5: the size of every directory entry is the sum of the sizes of all non-excluded,
\* non-symlink files below the directory, those in its subdirectories included.
C5_DirectoryEntryCountsAllDescendants ==
    \A i \in DOMAIN results :
        fs[results[i][1]].kind = "dir" =>
            results[i][2] = SumSizes(FileEntries(fs, DescendantFiles(fs, cfg, results[i][1])))

IndexIn(seq, e) == CHOOSE i \in DOMAIN seq : seq[i] = e

\* C6: the returned list is a permutation of the appended entries, in non-increasing
\* size order, and entries of equal size keep their discovery order.
C6_RankedIsStableDescendingPermutation ==
    pc = "ask" =>
        /\ Len(ranked) = Len(results)
        /\ Cardinality(SeqToSet(results)) = Len(results)
        /\ SeqToSet(ranked) = SeqToSet(results)
        /\ \A i, j \in DOMAIN ranked :
              i < j => /\ ranked[i][2] >= ranked[j][2]
                       /\ ranked[i][2] = ranked[j][2] =>
                              IndexIn(results, ranked[i]) < IndexIn(results, ranked[j])

\* a returned list the sort reordered, holding a directory entry and a file entry
\* of the same size
C6_Witness ==
    /\ pc = "ask"
    /\ ranked # results
    /\ \E i, j \in DOMAIN ranked :
          /\ i < j
          /\ ranked[i][2] = ranked[j][2]
          /\ IsDir(fs, ranked[i][1]) # IsDir(fs, ranked[j][1])

\* the paths whose delete call completed, in the order of the calls
DeletedPaths ==
    LET done == SelectSeq(log, LAMBDA e : e.outcome = "removed")
    IN  [k \in DOMAIN done |-> done[k].path]

\* C2: a path is a key of the removal report only if this invocation's own delete
\* call on that path completed.
C2_ReportedOnlyIfDeleted ==
    \A i \in DOMAIN removed : removed[i][1] \in SeqToSet(DeletedPaths)

ItemPaths == [i \in DOMAIN items |-> items[i][1]]

\* the loop has handled exactly the first idx - 1 items, in input order, and the
\* successful removals stand in the report in the order they happened
AttemptedOnceInOrder ==
    pc \in {"rm_check", "rm_do", "done"} =>
        /\ idx \in 1..(Len(items) + 1)
        /\ Len(log) = idx - 1
        /\ [k \in DOMAIN log |-> log[k].path] = SubSeq(ItemPaths, 1, Len(log))
        /\ pc = "rm_do" => idx <= Len(items)
        /\ pc = "done" => Len(log) = Len(items)
        /\ SelectSeq(DictKeys(removed), LAMBDA p : p \in SeqToSet(DeletedPaths))
              = DeletedPaths

\* C3: the loop handles the items one by one in input order, whatever happened to
\* the earlier ones; the call always returns, every item has then been handled
\* exactly once, and the successful removals stand in the report in the order they
\* happened.
C3_EveryItemAttemptedOnceInOrder ==
    /\ []AttemptedOnceInOrder
    /\ <>(pc = "done")

\* a returned call whose first item failed and whose second item was removed
C3_Witness ==
    /\ pc = "done"
    /\ Len(log) >= 2
    /\ log[1].outcome = "failed"
    /\ log[2].outcome = "removed"
    /\ DictKeys(removed) = <<log[2].path>>

\* the claim's tokens: the maximal runs of characters other than blank and comma
RECURSIVE TokensOf(_, _)
TokensOf(s, cur) ==
    IF s = <<>> THEN IF cur = <<>> THEN <<>> ELSE <<cur>>
    ELSE IF Head(s) \in {" ", ","}
         THEN (IF cur = <<>> THEN <<>> ELSE <<cur>>) \o TokensOf(Tail(s), <<>>)
    ELSE TokensOf(Tail(s), Append(cur, Head(s)))

\* a number: decimal digits, which may follow a plus sign
Unsigned(t) == IF t # <<>> /\ t[1] = "+" THEN Tail(t) ELSE t

IsNumber(t) == Unsigned(t) # <<>> /\ \A i \in DOMAIN Unsigned(t) : IsDigit(Unsigned(t)[i])

NumberVal(t) == DecimalVal(Unsigned(t))

\* a bare number N with 1 <= N <= maxIndex, or A-B with 1 <= A <= B <= maxIndex
ValidToken(t, maxIndex) ==
    LET dashes == {k \in DOMAIN t : t[k] = "-"}
    IN  IF dashes = {}
        THEN IsNumber(t) /\ 1 <= NumberVal(t) /\ NumberVal(t) <= maxIndex
        ELSE /\ Cardinality(dashes) = 1
             /\ LET k == CHOOSE d \in dashes : TRUE
                    a == SubSeq(t, 1, k - 1)
                    b == SubSeq(t, k + 1, Len(t))
                IN  /\ IsNumber(a) /\ IsNumber(b)
                    /\ 1 <= NumberVal(a)
                    /\ NumberVal(a) <= NumberVal(b)
                    /\ NumberVal(b) <= maxIndex

\* a token that is neither valid nor the literal "all"
BadToken(t, maxIndex) == ~ValidToken(t, maxIndex) /\ Lower(t) # <<"a", "l", "l">>

\* C4: if any token is malformed, out of range or an inverted range, the result is
\* the empty list, however many other tokens are valid.
C4_AnyBadTokenRejectsAll ==
    pc = "parsed" =>
        LET toks == TokensOf(selection, <<>>)
        IN  (\E i \in DOMAIN toks : BadToken(toks[i], max_items)) => parsed = <<>>

\* a rejected input in which a bad token stands next to a valid one
C4_Witness ==
    /\ pc = "parsed"
    /\ parsed = <<>>
    /\ LET toks == TokensOf(selection, <<>>)
       IN  /\ \E i \in DOMAIN toks : BadToken(toks[i], max_items)
           /\ \E i \in DOMAIN toks : ValidToken(toks[i], max_items)

\* the regular files a scan sizes are never symlinks, no symlinked directory is
\* visited, and no entry is a symlink
C7_ScanIgnoresSymlinks ==
    /\ \A p \in sized : ~IsLink(fs, p)
    /\ \A i \in DOMAIN visited : ~IsLink(fs, visited[i])
    /\ \A i \in DOMAIN results : ~IsLink(fs, results[i][1])

\* C7: symlinks never contribute to a size total and are never recursed into, in a
\* scan and in the removal-time size: the size recorded for a path that is a symlink
\* does not include the size of the symlink's target.
C7_SymlinkTargetNeverCounted ==
    /\ []C7_ScanIgnoresSymlinks
    /\ [][\A p \in Paths :
            (/\ IsLink(fs, p)
             /\ p \notin SeqToSet(DictKeys(removed))
             /\ p \in SeqToSet(DictKeys(removed')))
            => DictGet(removed', p) = 0]_vars

\* C8: safe_remove_items runs only on items the user selected from the displayed
\* slice and then confirmed, and nothing a scan reported is gone unless it lies at or
\* below such an item.
C8_RemovalOnlyAfterConfirmation ==
    /\ (pc \in {"rm_check", "rm_do"} \/ log # <<>> \/ removed # <<>>) =>
          /\ answer = "yes"
          /\ items # <<>>
          /\ items = selected
          /\ \A i \in DOMAIN items : items[i] \in SeqToSet(DisplayResults(cfg, ranked))
    /\ \A i \in DOMAIN ranked :
          ~Exists(fs, ranked[i][1]) =>
              /\ answer = "yes"
              /\ \E k \in DOMAIN log :
                    /\ log[k].outcome = "removed"
                    /\ log[k].path \in SeqToSet(ItemPaths)
                    /\ AtOrBelow(ranked[i][1], log[k].path)

\* a confirmed selection, taken from a slice shorter than the result list, of which
\* an item has been removed
C8_Witness ==
    /\ pc = "done"
    /\ answer = "yes"
    /\ Len(DisplayResults(cfg, ranked)) < Len(ranked)
    /\ \E k \in DOMAIN log : log[k].outcome = "removed"

\* C9: an item whose path is missing when the loop reaches it is skipped: nothing is
\* deleted or recorded for it, it never enters the report, and the loop goes on to
\* the next item.
C9_MissingItemSkipped ==
    /\ [](\A k \in DOMAIN log :
             log[k].outcome = "missing" => log[k].path \notin SeqToSet(DictKeys(removed)))
    /\ [][(/\ pc = "rm_check"
           /\ idx <= Len(items)
           /\ ~Exists(fs, items[idx][1])
           /\ (pc' # pc \/ idx' # idx))
          => /\ pc' = "rm_check"
             /\ idx' = idx + 1
             /\ fs' = fs
             /\ removed' = removed]_vars

\* a missing item was skipped and a later item was then removed
C9_Witness ==
    \E k, m \in DOMAIN log :
        /\ k < m
        /\ log[k].outcome = "missing"
        /\ log[m].outcome = "removed"

\* the files below p, at any depth, that are not symlinks
NonSymlinkFilesBelow(f, p) ==
    {q \in Paths : Below(q, p) /\ f[q].kind \in {"file", "fifo"}}

RECURSIVE TotalSize(_, _)
TotalSize(f, S) ==
    IF S = {} THEN 0
    ELSE LET q == CHOOSE x \in S : TRUE IN f[q].size + TotalSize(f, S \ {q})

\* C10: the size recorded for a removed item is its size right before the deletion:
\* a file's current size, a directory's current total of its non-symlink files at
\* any depth.
C10_RecordedSizeIsCurrentSize ==
    [][\A p \in Paths :
          (/\ Len(log') = Len(log) + 1
           /\ log'[Len(log')].path = p
           /\ log'[Len(log')].outcome = "removed"
           /\ fs[p].kind \in {"file", "dir"})
          => DictGet(removed', p) =
                 IF fs[p].kind = "file" THEN fs[p].size
                 ELSE TotalSize(fs, NonSymlinkFilesBelow(fs, p))]_vars

\* a removed directory whose recorded size is more than any single file's, after
\* another process changed the tree: files at two depths were counted
C10_Witness ==
    /\ ext > 0
    /\ \E k \in DOMAIN log :
          /\ log[k].outcome = "removed"
          /\ log[k].kind = "dir"
          /\ DictGet(removed, log[k].path) > MaxSize * MiB
          /\ DictGet(removed, log[k].path) # items[k][2]

\* the indices a valid token names
TokenSet(t) ==
    LET dashes == {k \in DOMAIN t : t[k] = "-"}
    IN  IF dashes = {} THEN {NumberVal(t)}
        ELSE LET k == CHOOSE d \in dashes : TRUE
             IN  NumberVal(SubSeq(t, 1, k - 1))..NumberVal(SubSeq(t, k + 1, Len(t)))

AllTokensValid(s, maxIndex) ==
    \A i \in DOMAIN TokensOf(s, <<>>) : ValidToken(TokensOf(s, <<>>)[i], maxIndex)

NamedIndices(s) ==
    UNION {TokenSet(TokensOf(s, <<>>)[i]) : i \in DOMAIN TokensOf(s, <<>>)}

\* C11: when every token is a valid number or a valid range, the result holds
\* exactly the union of the named indices, each once, in strictly ascending order and
\* within 1..maxIndex, whatever the order of the tokens; "2-4 1" with maxIndex 5 gives
\* 1,2,3,4 and "0-2" and "3-2" are rejected.
C11_ValidInputGivesSortedUnion ==
    /\ pc = "parsed" /\ AllTokensValid(selection, max_items) =>
          /\ SeqToSet(parsed) = NamedIndices(selection)
          /\ \A i, j \in DOMAIN parsed : i < j => parsed[i] < parsed[j]
          /\ SeqToSet(parsed) \subseteq 1..max_items
    /\ parse_selection(<<"2", "-", "4", " ", "1">>, 5) = <<1, 2, 3, 4>>
    /\ parse_selection(<<"0", "-", "2">>, 5) = <<>>
    /\ parse_selection(<<"3", "-", "2">>, 5) = <<>>

\* an accepted input whose tokens are out of order and overlap
C11_Witness ==
    /\ pc = "parsed"
    /\ AllTokensValid(selection, max_items)
    /\ LET toks == TokensOf(selection, <<>>)
       IN  /\ Len(toks) >= 2
           /\ \E i, j \in DOMAIN toks :
                 /\ i < j
                 /\ TokenSet(toks[i]) \cap TokenSet(toks[j]) # {}
           /\ \E i, j \in DOMAIN toks :
                 /\ i < j
                 /\ \E x \in TokenSet(toks[i]), y \in TokenSet(toks[j]) : y < x
    /\ Len(parsed) >= 2

\* C12: the token "all", in any letter case, gives every index from 1 to maxIndex
\* wherever it stands among the tokens.
C12_AllTokenAnywhereSelectsEverything ==
    pc = "parsed" =>
        LET toks == TokensOf(selection, <<>>)
        IN  (\E i \in DOMAIN toks : Lower(toks[i]) = <<"a", "l", "l">>)
                => parsed = Range(1, max_items)

\* the walk reached q: it processed q's directory, and q is not a dot entry skipped
\* as a unit
Reached(q) ==
    /\ Dirname(q) \in SeqToSet(visited)
    /\ ~(cfg.ignore_dotfolders /\ HasDotPart(q))

\* the files of the tree: everything that exists and is not a directory
FilePaths == {q \in Paths \ {Root} : Exists(fs, q) /\ ~IsDir(fs, q)}

\* C13: in file mode the result holds an entry for a file exactly when the walk
\* reached the file, it is no symlink, matches no exclusion pattern and has at least
\* the threshold size; the entry is there once, with the file's own size; and in
\* either mode no entry is below the threshold.
C13_FileEntriesExactlyTheBigFiles ==
    pc = "ask" =>
        /\ cfg.scan_files =>
              \A q \in FilePaths :
                  LET hits == {i \in DOMAIN ranked : ranked[i][1] = q}
                  IN  IF /\ Reached(q)
                         /\ ~IsLink(fs, q)
                         /\ ~should_exclude(q, cfg.exclusions)
                         /\ fs[q].size >= MinBytes(cfg)
                      THEN /\ Cardinality(hits) = 1
                           /\ \A i \in hits : ranked[i][2] = fs[q].size
                      ELSE hits = {}
        /\ \A i \in DOMAIN ranked : ranked[i][2] >= MinBytes(cfg)

\* a finished file-mode scan that emitted a file and left out a reached file below
\* the threshold, a symlink and a file matching a pattern
C13_Witness ==
    /\ pc = "ask"
    /\ cfg.scan_files
    /\ cfg.min_size_mb > 0
    /\ \E q \in FilePaths : q \in EntryPaths(ranked)
    /\ \E q \in FilePaths :
          /\ Reached(q) /\ ~IsLink(fs, q) /\ ~should_exclude(q, cfg.exclusions)
          /\ fs[q].size < MinBytes(cfg)
    /\ \E q \in FilePaths : Reached(q) /\ (IsLink(fs, q) \/ should_exclude(q, cfg.exclusions))

\* C14: the empty pattern matches no path, absolute or relative, so an empty string
\* in the exclusion set excludes nothing.
C14_EmptyPatternNeverMatches ==
    pc = "matched" /\ arg_pattern = <<>> =>
        /\ ~matches
        /\ ~should_exclude(arg_path, {<<>>})

\* the segments of an absolute path: the pieces behind its leading slash
SegmentsOf(p) == Tail(Split(PurePathStr(p), "/"))

\* an absolute path whose segments and the pattern's segments are equally many and
\* match one by one
MatchesExactly(path, pattern) ==
    /\ IsAbsolute(path)
    /\ Len(SegmentsOf(path)) = Len(SegmentsOf(pattern))
    /\ \A i \in DOMAIN SegmentsOf(path) :
          /\ SegmentsOf(path)[i] # <<>>
          /\ GlobMatch(Lower(SegmentsOf(path)[i]), Lower(SegmentsOf(pattern)[i]))

\* a segment that occurs in no pattern
UnrelatedSegment == <<"z">>

\* C15: for an absolute pattern, wildcards included, a path that matches the pattern
\* exactly is excluded, and that path extended by one unrelated segment is not.
C15_AbsolutePatternStopsAtExactPath ==
    (/\ pc = "matched"
     /\ IsAbsolute(arg_pattern)
     /\ MatchesExactly(arg_path, arg_pattern)) =>
        /\ matches
        /\ should_exclude(arg_path, {arg_pattern})
        /\ ~should_exclude(PathJoin(arg_path, UnrelatedSegment), {arg_pattern})

\* s with the case of every letter changed
SwapCase(s) ==
    [i \in DOMAIN s |->
        IF \E k \in DOMAIN UpperLetters : UpperLetters[k] = s[i]
        THEN LowerLetters[CHOOSE k \in DOMAIN UpperLetters : UpperLetters[k] = s[i]]
        ELSE IF \E k \in DOMAIN LowerLetters : LowerLetters[k] = s[i]
        THEN UpperLetters[CHOOSE k \in DOMAIN LowerLetters : LowerLetters[k] = s[i]]
        ELSE s[i]]

\* C16: in all three pattern forms the result is the same when the letter case of
\* the path, of the pattern, or of both is changed.
C16_MatchingIgnoresCase ==
    pc = "matched" =>
        /\ matches = path_matches_pattern(SwapCase(arg_path), arg_pattern)
        /\ matches = path_matches_pattern(arg_path, SwapCase(arg_pattern))
        /\ matches = path_matches_pattern(SwapCase(arg_path), SwapCase(arg_pattern))
        /\ matches = path_matches_pattern(Lower(arg_path), Lower(arg_pattern))

\* the letters of s
Letters(s) == {s[i] : i \in DOMAIN s} \ {"/", "*", "?", "[", "]", "!", "."}

\* a match of a relative pattern of several segments written in lower case with a
\* path written in upper case
C16_Witness ==
    /\ pc = "matched"
    /\ matches
    /\ Letters(arg_path) = {"A"}
    /\ Letters(arg_pattern) = {"a"}
    /\ ~IsAbsolute(arg_pattern)
    /\ Len(Split(arg_pattern, "/")) = MaxPatSegs
    /\ \A i \in DOMAIN Split(arg_pattern, "/") : Split(arg_pattern, "/")[i] # <<"*", "*">>

\* the first call removed every one of its items
FirstCallRemovedAll ==
    /\ prev_log # <<>>
    /\ \A k \in DOMAIN prev_log : prev_log[k].outcome = "removed"

\* C17: a second call with the same items, after a first call that removed them,
\* deletes nothing, raises nothing and returns an empty report.
C17_SecondRemoveIsEmpty ==
    /\ [](FirstCallRemovedAll =>
             /\ removed = <<>>
             /\ \A k \in DOMAIN log : log[k].outcome = "missing"
             /\ calls = 2 => Len(log) = Len(items))
    /\ [][FirstCallRemovedAll /\ log' # log => fs' = fs]_vars

\* a second call has returned after a first call that removed each of several items
C17_Witness ==
    /\ calls = 2
    /\ FirstCallRemovedAll
    /\ Len(prev_log) = MaxItems
    /\ Len(log) = MaxItems
    /\ removed = <<>>

\* the scan root exists and is a directory
ValidRoot == Exists(fs, Root) /\ IsDir(fs, Root)

\* C18: when the scan root does not exist or is not a directory, cmd_scan returns at
\* once: nothing is walked, no result list is produced, and neither selection nor
\* removal is offered; once the command has returned nothing more happens.
C18_InvalidRootEndsTheCommand ==
    [][/\ (pc = "start" /\ ~ValidRoot) =>
             /\ pc' = "done"
             /\ todo' = <<>> /\ visited' = <<>> /\ sized' = {}
             /\ results' = <<>> /\ ranked' = <<>>
             /\ selected' = <<>> /\ items' = <<>> /\ removed' = <<>> /\ log' = <<>>
             /\ fs' = fs
       /\ (pc = "done") => (pc' = "done" /\ fs' = fs)]_vars

\* the command has returned for a root that is a regular file, with nothing walked
C18_Witness ==
    /\ pc = "done"
    /\ IsFile(fs, Root)
    /\ visited = <<>>
    /\ ranked = <<>>

\* the number of levels a path lies below the scan root
DepthBelowRoot(p) == Len(SegmentsOf(p)) - Len(SegmentsOf(Root))

\* C19: when -D/--depth N is given, the simple analyzer does not descend more than N
\* levels below the scan root, and no entry lies in a directory deeper than that.
C19_SimpleAnalyzerRespectsDepth ==
    (pc \in {"analyze", "analyzed"} /\ cfg.depth >= 0) =>
        /\ \A i \in DOMAIN visited : DepthBelowRoot(visited[i]) <= cfg.depth
        /\ \A i \in DOMAIN results :
              DepthBelowRoot(IF IsDir(fs, results[i][1]) THEN results[i][1]
                             ELSE Dirname(results[i][1])) <= cfg.depth

\* C20: without -i, interactive_by_default ON leads from the result table straight
\* into interactive selection, with no question first; OFF leads to the question.
C20_InteractiveByDefaultHonoured ==
    [][(pc = "ask" /\ ~cfg.interactive) =>
          IF cfg.interactive_by_default
          THEN pc' # "question" /\ (ranked # <<>> => pc' = "prompt")
          ELSE ranked # <<>> => pc' = "question"]_vars

\* a component of path p starts with '.'
HasDotComponent(p) == \E seg \in SeqToSet(Split(p, "/")) : StartsWithDot(seg)

\* C21: with ignore_dotfolders set, the walk never descends into a directory whose
\* name starts with '.', and no entry, directory or file, is emitted for a path
\* with a dot-prefixed component anywhere on it.
C21_DotSkippingIsTransitive ==
    (pc \in {"walk", "ask"} /\ cfg.ignore_dotfolders) =>
        /\ \A i \in 2..Len(visited) : ~StartsWithDot(Basename(visited[i]))
        /\ \A q \in EntryPaths(results) \cup EntryPaths(ranked) : ~HasDotComponent(q)

\* C21 happens: a scan from /r, with dot skipping on, of a tree that has a dot file in
\* the root and a file two levels below a dot directory has returned entries
C21_Witness ==
    /\ pc = "ask" /\ cfg.ignore_dotfolders /\ cfg.scan_files /\ cfg.scan_directories
    /\ visited # <<>> /\ visited[1] = Root
    /\ fs[pM].kind = "file" /\ fs[pN].kind = "file" /\ fs[pK].kind = "file"
    /\ ranked # <<>>

\* the segments of path p
Segments(p) == SelectSeq(Split(p, "/"), LAMBDA t : t # <<>>)

\* the parent directory of d
ParentOf(d) == IF Len(Segments(d)) = 1 THEN FsRoot ELSE Dirname(d)

\* d lies at most depth segments below root and the walk from root is not kept from
\* it by anything but the depth limit: d and the directories between root and d are
\* real directories that are neither dot-skipped nor excluded
RECURSIVE WithinDepth(_, _, _)
WithinDepth(d, root, depth) ==
    \/ d = root
    \/ /\ Len(Segments(d)) > Len(Segments(root))
       /\ Len(Segments(d)) - Len(Segments(root)) <= depth
       /\ fs[d].kind = "dir"
       /\ ~(cfg.ignore_dot /\ StartsWithDot(Basename(d)))
       /\ ~usage_should_exclude(d, cfg.excl)
       /\ WithinDepth(ParentOf(d), root, depth)

\* C22: with max-depth D, analyze_usage visits exactly the directories at most D
\* segments below the root whose ancestors were not pruned, for every root, the
\* filesystem root '/' included.
C22_VisitsExactlyTheDirectoriesWithinDepth ==
    (pc = "usage_done" /\ cfg.max_depth >= 0) =>
        SeqToSet(visited) =
            {d \in Paths \cup {FsRoot} : WithinDepth(d, cfg.root, cfg.max_depth)}

\* view shows the k largest entries of the accumulated list acc, largest first
IsTopK(view, acc, k) ==
    /\ Len(view) = (IF Len(acc) < k THEN Len(acc) ELSE k)
    /\ \A i \in 1..(Len(view) - 1) : view[i][2] >= view[i + 1][2]
    /\ \E pos \in [DOMAIN view -> DOMAIN acc] :
          /\ \A i, j \in DOMAIN view : i # j => pos[i] # pos[j]
          /\ \A i \in DOMAIN view : acc[pos[i]] = view[i]
          /\ \A m \in DOMAIN acc :
                (\A i \in DOMAIN view : pos[i] # m) =>
                    \A i \in DOMAIN view : view[i][2] >= acc[m][2]

\* C23: at every live update of a scan, the displayed view holds the K largest
\* entries discovered so far, in non-increasing size order.  (A live update follows
\* every append, so the views shown are the tables of the prefixes of the list.)
C23_LiveViewIsTopKOfAllFound ==
    pc \in {"usage", "usage_done"} =>
        \A n \in 0..Len(results) :
            IsTopK(build_table(SubSeq(results, 1, n)), SubSeq(results, 1, n),
                   ENTRIES_TO_SHOW)

\* pattern is not absolute and one of its segments is "**"
HasDoubleStarSegment(pattern) ==
    ~IsAbsolute(pattern) /\ <<"*", "*">> \in SeqToSet(Split(pattern, "/"))

\* the last '/'-separated segment of pattern
LastSegment(pattern) == LET segs == Split(pattern, "/") IN segs[Len(segs)]

\* path is written as the scan writes paths: PurePath leaves it as it is
Normalised(path) == PurePathStr(path) = path

SomeWindowMatches(path, pattern, k) ==
    LET segs == Segments(path)
    IN  \E i \in 0..(Len(segs) - k) :
            fnmatch(Lower(JoinWith(SubSeq(segs, i + 1, i + k), "/")), Lower(pattern))

\* C25: for a relative pattern of K segments without a "**" segment the result is
\* true exactly when some window of K consecutive segments of the path matches the
\* pattern; a path with fewer than K segments never matches.  (Paths are those the
\* scan hands over: normalised, with at least one segment.)
C25_RelativePatternMatchesSomeWindow ==
    (/\ pc = "matched"
     /\ ~IsAbsolute(arg_pattern) /\ ~HasDoubleStarSegment(arg_pattern)
     /\ Normalised(arg_path) /\ Segments(arg_path) # <<>>) =>
        (matches <=> SomeWindowMatches(arg_path, arg_pattern, Len(Split(arg_pattern, "/"))))

\* the files whose size cannot be read
UnreadableFiles == {q \in Paths : fs[q].kind = "badfile"}

\* the filesystem without the files whose size cannot be read
WithoutUnreadable == [q \in Paths |-> IF q \in UnreadableFiles THEN NoNode ELSE fs[q]]

\* what the scan of the directories ds, in order, emits on filesystem f
RECURSIVE EmittedFor(_, _)
EmittedFor(f, ds) ==
    IF ds = <<>> THEN <<>>
    ELSE EmittedFor(f, SubSeq(ds, 1, Len(ds) - 1))
         \o (IF InDotDirectory(cfg, ds[Len(ds)]) THEN <<>>
             ELSE DirEntries(f, cfg, ds[Len(ds)]) \o BigFileEntries(f, cfg, ds[Len(ds)]))

\* C26: an error while reading a file's size does not stop the scan; the file adds
\* nothing to its directory's total and gets no entry, and all other files and
\* directories are sized and emitted as if the failing file were absent.
C26_UnreadableFileIsAsIfAbsent ==
    /\ [](pc \in {"walk", "ask"} =>
            /\ results = EmittedFor(WithoutUnreadable, visited)
            /\ EntryPaths(results) \cap UnreadableFiles = {}
            /\ pc = "ask" => ranked = SortedDesc(EmittedFor(WithoutUnreadable, visited)))
    /\ [][(pc = "walk" /\ todo # <<>>) =>
             (pc' = "walk" /\ visited' = Append(visited, Head(todo)))]_vars

\* C26 happens: a scan has returned that read, in one directory, a file whose size
\* cannot be read and a file that got its entry, and that emitted the directory
C26_Witness ==
    /\ pc = "ask" /\ cfg.scan_files /\ cfg.scan_directories
    /\ \E q \in UnreadableFiles : \E r \in Paths :
          /\ q \in sized /\ r \in sized /\ r # q
          /\ Dirname(r) = Dirname(q)
          /\ r \in EntryPaths(ranked)
          /\ Dirname(q) \in EntryPaths(ranked)

\* C27: when the scan root itself matches an exclusion pattern, the scan descends
\* into nothing below the root and its result is empty.
C27_ExcludedRootGivesEmptyScan ==
    (/\ pc \in {"walk", "ask"}
     /\ visited # <<>>
     /\ should_exclude(visited[1], cfg.exclusions)) =>
        /\ Len(visited) = 1
        /\ results = <<>>
        /\ ranked = <<>>

\* q matched an exclusion pattern during the scan, or lies below a directory that
\* did and was pruned
KeptOutOfScan(q) ==
    \E d \in Paths \ {Root} :
        Exists(fs, d) /\ AtOrBelow(q, d) /\ should_exclude(d, cfg.exclusions)

\* C28: removing an entry of the scan deletes nothing that matched an exclusion
\* pattern during that scan or lies below a directory that did.
C28_RemovalSparesExcludedContent ==
    [][pc = "rm_do" =>
          \A q \in Paths : (Exists(fs, q) /\ ~Exists(fs', q)) => ~KeptOutOfScan(q)]_vars

\* the file entries of the scan result: with threshold 0, both modes on and no
\* exclusion, one entry (path, size) for every non-symlink file below the root
ScannedFiles == SelectSeq(results, LAMBDA e : e[1] \notin SeqToSet(visited))

\* the scanned files at or below a selected path that are gone
FreedFiles ==
    SelectSeq(ScannedFiles,
              LAMBDA e : /\ ~Exists(fs, e[1])
                         /\ \E i \in DOMAIN items : AtOrBelow(e[1], items[i][1]))

\* every item of the batch was deleted, or was gone already with a selected
\* directory above it
AllDeletionsSucceeded ==
    /\ Len(log) = Len(items)
    /\ \A k \in DOMAIN log : log[k].outcome \in {"removed", "missing"}

\* C29: for a selection taken from one scan result, nested items in either order
\* included, when all deletions succeed the sizes of the removal report add up to
\* the total size of the non-symlink files that existed under the selected paths
\* before the batch and are gone after it.  (The sizes before the batch are those
\* of the scan, taken with threshold 0 and no exclusion so that every such file
\* has its entry.)
C29_FreedBytesCountedOnce ==
    (/\ pc = "done" /\ calls = 1
     /\ cfg.min_size_mb = 0 /\ cfg.exclusions = {}
     /\ AllDeletionsSucceeded) =>
        SumSizes(removed) = SumSizes(FreedFiles)

\* C29 happens: a batch of a file followed by a directory above it, the file being
\* the larger entry of the scan, has been removed in full
C29_Witness ==
    /\ pc = "done" /\ calls = 1
    /\ cfg.min_size_mb = 0 /\ cfg.exclusions = {}
    /\ AllDeletionsSucceeded
    /\ Len(items) = 2 /\ SumSizes(removed) > 0
    /\ Below(items[1][1], items[2][1])
    /\ items[1][1] \notin SeqToSet(visited)
    /\ items[1][2] > items[2][2]

\* C30: prune(dry=True) deletes nothing; prune(dry=False) deletes a file only if it
\* is older than 30 days, its path holds none of the protected markers and no line
\* of /media/dontremove matches it.
C30_PruneDeletesOnlyUnprotectedOldFilesUnlessDry ==
    [][pc = "prune" =>
          \A q \in MediaPaths :
              (Exists(fs, q) /\ ~Exists(fs', q)) =>
                  /\ ~cfg.dry
                  /\ fs[q].age > DAYS * 24 * 60
                  /\ ~HasMarker(q)
                  /\ \A i \in DOMAIN cfg.dontremove : ~LineProtects(cfg.dontremove[i], q)]_vars

====
